---- MODULE Spec2Model ----
(***************************************************************************)
(* ICodeBot (src/src/bot.py): the bump reminder scheduler (on_ready,       *)
(* on_bump_done, the Disboard branch of on_message) and the animated-emoji *)
(* relay (_animated_emojis).  Every action is one atomic segment of a      *)
(* coroutine: the code between two awaits.                                 *)
(*                                                                         *)
(* Text is a sequence of Unicode code points, as a Python str is.  Time is  *)
(* counted in ticks, TicksPerSecond to the second, so that int(delay)      *)
(* truncates something.                                                    *)
(***************************************************************************)
EXTENDS Integers, Sequences, FiniteSets, TLC

VARIABLES
    maintenance,   \* self.MAINTENANCE_MODE
    ready,         \* the latest on_ready call: "no": none yet; "presence": suspended at
                   \* change_presence; "ok": it returned; "failed": it raised
    store,         \* the Timestamp Store: Absent, or Stored(lastTriggerTime in ticks)
    now,           \* datetime.now(), in ticks
    running,       \* self.bump_timer.running
    timers,        \* the on_bump_done tasks, in dispatch order
    tasks,         \* the _animated_emojis coroutines that reached their first await
    hooks,         \* per channel, the owners of its webhooks, in listing order
    feed,          \* messages sent through a webhook, not yet delivered back to on_message
    last           \* the frame of the most recent on_message call when it returned or suspended

vars == <<maintenance, ready, store, now, running, timers, tasks, hooks, feed, last>>

(***************************************************************************)
(* Bounds of the model.                                                    *)
(***************************************************************************)
MaxWords == 3          \* words of an inbound message
MaxTimers == 2         \* on_bump_done tasks ever dispatched
MaxTasks == 2          \* relay coroutines ever started
TicksPerSecond == 2    \* clock resolution
Now0 == 20000          \* the clock at construction, in seconds
MaxElapsed == 15000    \* seconds of clock the model follows
ClockStep == 7200      \* seconds the clock moves at a time

(***************************************************************************)
(* Program constants.                                                      *)
(***************************************************************************)
Period == 7200         \* the bump period in seconds, bot.py lines 86 and 238

\* The store holds no time, or one: a sequence of at most one time.
Absent == <<>>
Stored(t) == <<t>>
TimeOf(st) == st[1]
NoEmoji == <<>>         \* emoji = None, line 253

\* ------------------------------------------------------------------ text

\* ord(c) of the characters the texts of the model are written with
Ord(c) ==
    CASE c = ":" -> 58 [] c = "<" -> 60 [] c = ">" -> 62
      [] c = "1" -> 49 [] c = "2" -> 50 [] c = "3" -> 51
      [] c = "a" -> 97 [] c = "b" -> 98 [] c = "c" -> 99 [] c = "d" -> 100
      [] c = "e" -> 101 [] c = "h" -> 104 [] c = "i" -> 105 [] c = "m" -> 109
      [] c = "n" -> 110 [] c = "r" -> 114

\* the text whose characters are those of cs, in order
Text(cs) == [i \in 1..Len(cs) |-> Ord(cs[i])]

Colon == 58
Space == 32

\* the characters str.split() takes for whitespace, those str.isspace() is true of:
\* tab, line feed, vertical tab, form feed, carriage return, the separators
\* U+001C to U+001F, space, next line U+0085, no-break space U+00A0, U+1680,
\* U+2000 to U+200A, U+2028, U+2029, U+202F, U+205F and U+3000
Whitespace ==
    {9, 10, 11, 12, 13, 28, 29, 30, 31, 32, 133, 160, 5760}
        \cup (8192..8202) \cup {8232, 8233, 8239, 8287, 12288}

\* str.count(ch)
RECURSIVE Count(_, _)
Count(s, ch) ==
    IF s = <<>> THEN 0
    ELSE (IF Head(s) = ch THEN 1 ELSE 0) + Count(Tail(s), ch)

\* str.split(): the maximal runs of non-whitespace, in order
RECURSIVE SplitAcc(_, _, _, _)
SplitAcc(s, i, cur, acc) ==
    IF i > Len(s)
    THEN IF cur = <<>> THEN acc ELSE Append(acc, cur)
    ELSE IF s[i] \in Whitespace
         THEN SplitAcc(s, i + 1, <<>>, IF cur = <<>> THEN acc ELSE Append(acc, cur))
         ELSE SplitAcc(s, i + 1, Append(cur, s[i]), acc)

Split(s) == SplitAcc(s, 1, <<>>, <<>>)

\* whether old occurs in s at position i
MatchAt(s, i, old) ==
    /\ i + Len(old) - 1 <= Len(s)
    /\ SubSeq(s, i, i + Len(old) - 1) = old

\* str.replace(old, new) from position i on: every non-overlapping occurrence,
\* leftmost first
RECURSIVE ReplaceFrom(_, _, _, _)
ReplaceFrom(s, i, old, new) ==
    IF i > Len(s) THEN <<>>
    ELSE IF MatchAt(s, i, old)
         THEN new \o ReplaceFrom(s, i + Len(old), old, new)
         ELSE <<s[i]>> \o ReplaceFrom(s, i + 1, old, new)

\* a mutant of Replace: str.replace(old, new, 1)
RECURSIVE ReplaceFirstFrom(_, _, _, _)
ReplaceFirstFrom(s, i, old, new) ==
    IF i > Len(s) THEN <<>>
    ELSE IF MatchAt(s, i, old)
         THEN new \o SubSeq(s, i + Len(old), Len(s))
         ELSE <<s[i]>> \o ReplaceFirstFrom(s, i + 1, old, new)

ReplaceFirst(s, old, new) == ReplaceFirstFrom(s, 1, old, new)

Replace(s, old, new) == ReplaceFrom(s, 1, old, new)

\* ------------------------------------------------------- token resolver

\* The guild's emojis: name, whether animated, id.
EmojiA == [name |-> Text(<<"a">>), animated |-> TRUE, id |-> Text(<<"1">>)]
EmojiB == [name |-> Text(<<"b">>), animated |-> FALSE, id |-> Text(<<"2">>)]
EmojiReminder ==
    [name |-> Text(<<"r", "e", "m", "i", "n", "d", "e", "r">>), animated |-> FALSE,
     id |-> Text(<<"3">>)]
Catalog == {EmojiA, EmojiB, EmojiReminder}

CatalogNames == {e.name : e \in Catalog}

\* whether EmojiGroup.get_emoji(name) returns an emoji; it raises AttributeError
\* otherwise
Resolves(name) == name \in CatalogNames

\* EmojiGroup.get_emoji(name), where it returns
get_emoji(name) == CHOOSE e \in Catalog : e.name = name

\* str(emoji): "<a:name:id>" for an animated emoji, "<:name:id>" otherwise
EmojiStr(e) ==
    (IF e.animated THEN Text(<<"<", "a", ":">>) ELSE Text(<<"<", ":">>))
        \o e.name \o <<Colon>> \o e.id \o Text(<<">">>)

\* a mutant of IsCandidate: two delimiters with nothing between are a candidate
IsCandidateShort(word, temp) ==
    /\ word[1] = Colon
    /\ word[Len(word)] = Colon
    /\ Len(word) >= 2
    /\ \A k \in 1..Len(temp) : temp[k] # word

\* the condition of line 260
IsCandidate(word, temp) ==
    /\ word[1] = Colon
    /\ word[Len(word)] = Colon
    /\ Len(word) > 2
    /\ \A k \in 1..Len(temp) : temp[k] # word

\* word[1:-1]
Strip(word) == SubSeq(word, 2, Len(word) - 1)

\* a mutant of OnHit: the word is not remembered in temp
OnHitForgets(st, word, e) ==
    [content |-> Replace(st.content, word, EmojiStr(e)),
     temp |-> st.temp,
     emoji |-> e.name,
     lookups |-> Append(st.lookups, Strip(word))]

\* a mutant of OnHit: only the first occurrence is replaced
OnHitFirstOnly(st, word, e) ==
    [content |-> ReplaceFirst(st.content, word, EmojiStr(e)),
     temp |-> Append(st.temp, word),
     emoji |-> e.name,
     lookups |-> Append(st.lookups, Strip(word))]

\* lines 264-271: get_emoji returned e for the word
OnHit(st, word, e) ==
    [content |-> Replace(st.content, word, EmojiStr(e)),
     temp |-> Append(st.temp, word),
     emoji |-> e.name,
     lookups |-> Append(st.lookups, Strip(word))]

\* a mutant of OnMiss: a miss forgets the emoji found before it
OnMissResets(st, word) == [st EXCEPT !.lookups = Append(@, Strip(word)), !.emoji = NoEmoji]

\* lines 274-275: get_emoji raised AttributeError; emoji keeps its value
OnMiss(st, word) == [st EXCEPT !.lookups = Append(@, Strip(word))]

\* the loop of lines 257-275 from word i on; lookups records the get_emoji calls.
\* group is whether self.emoji_group exists: without it line 264 raises
\* AttributeError before get_emoji is called, line 274 swallows it, and nothing is
\* replaced or remembered
RECURSIVE ScanWords(_, _, _, _)
ScanWords(words, i, st, group) ==
    IF i > Len(words) THEN st
    ELSE LET word == words[i] IN
         IF IsCandidate(word, st.temp) /\ group
         THEN IF Resolves(Strip(word))
              THEN ScanWords(words, i + 1, OnHit(st, word, get_emoji(Strip(word))), group)
              ELSE ScanWords(words, i + 1, OnMiss(st, word), group)
         ELSE ScanWords(words, i + 1, st, group)

\* lines 253-275 on a message's content
Rewrite(content, group) ==
    ScanWords(Split(content), 1,
              [content |-> content, temp |-> <<>>, emoji |-> NoEmoji, lookups |-> <<>>],
              group)

\* a mutant of EmojiFound: the relay goes on whatever the scan found
EmojiFoundAlways(st) == TRUE

\* line 278: if emoji
EmojiFound(st) == st.emoji # NoEmoji

\* ------------------------------------------------------------- messages

Channels == {"general", "maint"}
MaintChannel == "maint"      \* self.MAINTENANCE_CHANNEL
Disboard == "disboard"       \* the author whose id is DISBOARD_ID

\* what message.embeds[0].description is: a text with "Bump done" in it, another
\* text, or nothing to search in (no embed, or an embed with no description)
Embeds == {"Bump done", "other", "none"}

\* An inbound message: its channel, whether message.webhook_id is set, its author,
\* its first embed's description, and its content.
Msg(ch, wh, au, embed, content) ==
    [channel |-> ch, webhook |-> wh, author |-> au, embed |-> embed, content |-> content]

\* " ".join(words)
RECURSIVE Join(_)
Join(words) ==
    IF words = <<>> THEN <<>>
    ELSE IF Len(words) = 1 THEN words[1]
    ELSE words[1] \o <<Space>> \o Join(Tail(words))

\* the words inbound messages are made of: resolvable tokens, a token whose name is
\* not in the catalog, a token that contains a resolvable one, the bare delimiters,
\* and words that are no tokens
Vocabulary ==
    { Text(<<":", "a", ":">>), Text(<<":", "b", ":">>), Text(<<":", "c", ":">>),
      Text(<<":", "a", ":", "b", ":">>), Text(<<":", ":">>), Text(<<":">>),
      Text(<<"h", "i">>), Text(<<":", "a">>) }

\* what stands between two words of a message other than one space: a line feed, a
\* tab, carriage return and line feed, a form feed between spaces, a vertical tab,
\* a unit separator, a no-break space, an em space, a line separator after a next
\* line, an ideographic space
Breaks ==
    { <<10>>, <<9>>, <<13, 10>>, <<32, 12, 32>>, <<11>>, <<31>>, <<160>>, <<8195>>,
      <<133, 8232>>, <<12288>> }

\* two words of the vocabulary with a break between them
BrokenContents == { v \o b \o w : v \in Vocabulary, w \in Vocabulary, b \in Breaks }

Contents ==
    BrokenContents \cup UNION { { Join(ws) : ws \in [1..n -> Vocabulary] } : n \in 1..MaxWords }

\* the contents the whole-program specification draws from
FewContents ==
    { Join(ws) : ws \in { <<Text(<<":", "a", ":">>)>>,
                          <<Text(<<"h", "i">>), Text(<<":", "c", ":">>)>> } }

\* webhook messages: the bump service's, with every kind of first embed, and
\* another webhook's, whose embeds on_message does not look at
WebhookMsgs ==
    { Msg(ch, TRUE, Disboard, e, <<>>) : ch \in Channels, e \in Embeds }
        \cup { Msg(ch, TRUE, "other", "none", <<>>) : ch \in Channels }

UserMsgs(cs) == { Msg(ch, FALSE, "user", "none", c) : ch \in Channels, c \in cs }

\* the frame of an on_message call: the message, message.content as the call left
\* it, the get_emoji calls made, and where the call went
Frame(m, content, lookups, how) ==
    [msg |-> m, content |-> content, lookups |-> lookups, how |-> how]

NoFrame == Frame(Msg("general", FALSE, "user", "none", <<>>), <<>>, <<>>, "none")

\* ------------------------------------------------------------ scheduler

\* int(x) of a non-negative number of ticks, in seconds
TruncSeconds(ticks) == ticks \div TicksPerSecond

\* a mutant of InitialDelay: the remaining time is not clamped at zero
InitialDelayNoClamp(n, prev) == TruncSeconds(Period * TicksPerSecond - (n - prev))

\* lines 85-86 and the int() of line 88: the delay passed to on_bump_done
InitialDelay(n, prev) ==
    LET delta == n - prev
        delay == IF delta >= Period * TicksPerSecond
                 THEN 0
                 ELSE Period * TicksPerSecond - delta
    IN  TruncSeconds(delay)

\* self.dispatch("bump_done", delay): a task that has not run yet; at is where the
\* task raised, if it did: "lookup" for lines 108-114, "send" for line 117
Dispatched(delay, by) ==
    [delay |-> delay, by |-> by, pc |-> "dispatched", wake |-> 0, at |-> "none"]

\* the last trigger times the store may hold at startup, as ages in ticks: 9000 s,
\* exactly the period, just under it, 1000 s, a fraction over 1000 s, none, and a
\* time 100 s ahead of the clock
InitAges ==
    { 9000 * TicksPerSecond, Period * TicksPerSecond, Period * TicksPerSecond - 1,
      1000 * TicksPerSecond, 1000 * TicksPerSecond + 1, 0, -100 * TicksPerSecond }

MaxNow == (Now0 + MaxElapsed) * TicksPerSecond

TypeOK ==
    /\ maintenance \in BOOLEAN
    /\ ready \in {"no", "presence", "ok", "failed"}
    /\ store = Absent \/ (Len(store) = 1 /\ TimeOf(store) \in Int)
    /\ now \in Int
    /\ running \in BOOLEAN
    /\ Len(timers) <= MaxTimers
    /\ Len(tasks) <= MaxTasks

Init ==
    /\ maintenance \in BOOLEAN
    /\ ready = "no"
    /\ now = Now0 * TicksPerSecond
    /\ store \in {Absent} \cup { Stored(Now0 * TicksPerSecond - a) : a \in InitAges }
    /\ running = FALSE
    /\ timers = <<>>
    /\ tasks = <<>>
    /\ hooks \in [Channels -> {<<>>, <<"other">>, <<"other", "bot">>}]
    /\ feed = <<>>
    /\ last = NoFrame

\* on_ready, lines 55-91, up to its await of change_presence (line 76 or 91) or to
\* the exception of line 85 on an absent time.  The gateway calls it at every
\* connect, also while an earlier call is suspended; line 68 makes a new BumpTimer,
\* whose running is False.  The model stops dispatching timers at its bound, and
\* dispatches no timer the clock would not follow.
on_ready ==
    /\ running' = FALSE
    /\ IF maintenance
       THEN ready' = "presence" /\ timers' = timers
       ELSE IF store = Absent
            THEN ready' = "failed" /\ timers' = timers
            ELSE /\ Len(timers) < MaxTimers
                 /\ now + InitialDelay(now, TimeOf(store)) * TicksPerSecond <= MaxNow
                 /\ ready' = "presence"
                 /\ timers' = Append(timers, Dispatched(InitialDelay(now, TimeOf(store)), "startup"))
    /\ UNCHANGED <<maintenance, store, now, tasks, hooks, feed, last>>

\* on_ready, line 76 or 91: change_presence returns, or raises
Presence(ok) ==
    /\ ready = "presence"
    /\ ready' = IF ok THEN "ok" ELSE "failed"
    /\ UNCHANGED <<maintenance, store, now, running, timers, tasks, hooks, feed, last>>

\* on_bump_done, lines 103-104: the task starts, sets running and sleeps.  The
\* event loop starts tasks in the order of their dispatch; a task whose sleep is
\* over resumes before or after a task that starts.
Start(t) ==
    /\ timers[t].pc = "dispatched"
    /\ \A u \in 1..(t - 1) : timers[u].pc # "dispatched"
    /\ running' = TRUE
    /\ timers' = [timers EXCEPT ![t].pc = "sleeping",
                                ![t].wake = now + timers[t].delay * TicksPerSecond]
    /\ UNCHANGED <<maintenance, ready, store, now, tasks, hooks, feed, last>>

\* the name line 114 looks up
ReminderName == Text(<<"r", "e", "m", "i", "n", "d", "e", "r">>)

\* whether lines 108-114 reach the send: get_channel found the terminal channel
\* (found) and the catalog has the reminder emoji; an AttributeError otherwise
ReachesSend(found) == found /\ Resolves(ReminderName)

\* a mutant of Wake: running is left as it is
WakeKeepsRunning(t, found) ==
    /\ timers[t].pc = "sleeping"
    /\ now >= timers[t].wake
    /\ timers' = [timers EXCEPT ![t].pc = IF ReachesSend(found) THEN "emit" ELSE "failed",
                                ![t].at = IF ReachesSend(found) THEN "none" ELSE "lookup"]
    /\ UNCHANGED <<running, maintenance, ready, store, now, tasks, hooks, feed, last>>

\* on_bump_done, lines 105-117: the sleep is over; running is reset, and the
\* reminder's send is awaited or lines 108-114 raised before it.  The event loop
\* resumes the sleepers whose time has come in the order of their deadlines;
\* asyncio.sleep(0) sets no deadline, it yields once, and its task may resume
\* before a sleeper whose deadline has passed.
Wake(t, found) ==
    /\ timers[t].pc = "sleeping"
    /\ now >= timers[t].wake
    /\ \/ timers[t].delay = 0
       \/ \A u \in 1..Len(timers) :
             timers[u].pc = "sleeping" => timers[u].wake >= timers[t].wake
    /\ running' = FALSE
    /\ timers' = [timers EXCEPT ![t].pc = IF ReachesSend(found) THEN "emit" ELSE "failed",
                                ![t].at = IF ReachesSend(found) THEN "none" ELSE "lookup"]
    /\ UNCHANGED <<maintenance, ready, store, now, tasks, hooks, feed, last>>

\* a mutant of Emit: a failed send dispatches the reminder again
EmitRetries(t, ok) ==
    /\ timers[t].pc = "emit"
    /\ timers' = IF ok \/ Len(timers) >= MaxTimers
                 THEN [timers EXCEPT ![t].pc = IF ok THEN "done" ELSE "failed",
                                     ![t].at = IF ok THEN "none" ELSE "send"]
                 ELSE Append([timers EXCEPT ![t].pc = "failed", ![t].at = "send"],
                             Dispatched(0, "retry"))
    /\ UNCHANGED <<maintenance, ready, store, now, running, tasks, hooks, feed, last>>

\* a mutant of Emit: the reminder's send records its time as the last trigger
EmitStores(t, ok) ==
    /\ timers[t].pc = "emit"
    /\ timers' = [timers EXCEPT ![t].pc = IF ok THEN "done" ELSE "failed",
                                ![t].at = IF ok THEN "none" ELSE "send"]
    /\ store' = Stored(now)
    /\ UNCHANGED <<maintenance, ready, now, running, tasks, hooks, feed, last>>

\* on_bump_done, lines 117-124: channel.send returns, or raises
Emit(t, ok) ==
    /\ timers[t].pc = "emit"
    /\ timers' = [timers EXCEPT ![t].pc = IF ok THEN "done" ELSE "failed",
                                ![t].at = IF ok THEN "none" ELSE "send"]
    /\ UNCHANGED <<maintenance, ready, store, now, running, tasks, hooks, feed, last>>

\* whether the event loop has an on_bump_done task to run: one dispatched and not
\* started, or one whose sleep is over
TimerReady(t) ==
    \/ timers[t].pc = "dispatched"
    \/ timers[t].pc = "sleeping" /\ now >= timers[t].wake

\* the clock moves on while no on_bump_done task is ready to run: by ClockStep
\* seconds, or to the deadline of a sleeping timer
Tick ==
    /\ \A t \in 1..Len(timers) : ~TimerReady(t)
    /\ \E n \in {now + ClockStep * TicksPerSecond}
                 \cup { timers[t].wake : t \in { u \in 1..Len(timers) : timers[u].pc = "sleeping" } } :
          /\ n > now
          /\ n <= MaxNow
          /\ now' = n
    /\ UNCHANGED <<maintenance, ready, store, running, timers, tasks, hooks, feed, last>>

\* ---------------------------------------------------------- on_message

\* on_message returns without a side effect
Return(m, how) ==
    /\ last' = Frame(m, m.content, <<>>, how)
    /\ UNCHANGED <<store, timers, tasks>>

\* whether on_ready has been called: its lines 64, 68 and 73 have set
\* self.emoji_group, self.bump_timer and, in maintenance mode,
\* self.MAINTENANCE_CHANNEL.  Nothing else sets them, and nothing keeps the gateway
\* from delivering a message before that.
Attributes == ready # "no"

\* on_message raises before any side effect: AttributeError at line 229 on
\* self.MAINTENANCE_CHANNEL or at line 237 on self.bump_timer, IndexError or
\* TypeError at line 236 on a message of the bump service with no description
Raise(m) ==
    /\ last' = Frame(m, m.content, <<>>, "raised")
    /\ UNCHANGED <<store, timers, tasks>>

\* a mutant of BumpDone: the timers still pending are dropped before the new one
\* is dispatched
BumpDoneCancels(m) ==
    /\ store' = Stored(now)
    /\ timers' = Append([t \in 1..Len(timers) |->
                            IF timers[t].pc \in {"dispatched", "sleeping"}
                            THEN [timers[t] EXCEPT !.pc = "cancelled"]
                            ELSE timers[t]],
                        Dispatched(Period, "bump"))
    /\ last' = Frame(m, m.content, <<>>, "bump")
    /\ UNCHANGED tasks

\* lines 237-239: update_bump_time(datetime.now()), dispatch("bump_done", 7200)
BumpDone(m) ==
    /\ store' = Stored(now)
    /\ timers' = Append(timers, Dispatched(Period, "bump"))
    /\ last' = Frame(m, m.content, <<>>, "bump")
    /\ UNCHANGED tasks

\* what the relay coroutine holds at its first await
Task(m, st) ==
    [msg |-> m, content |-> st.content, pc |-> "list", hook |-> 0,
     sends |-> 0, deletes |-> 0, at |-> "none"]

\* _animated_emojis, lines 253-280: the scan, and the coroutine suspended at
\* message.channel.webhooks() if an emoji was found
animated_emojis(m) ==
    LET st == Rewrite(m.content, Attributes) IN
    /\ IF EmojiFound(st)
       THEN /\ tasks' = Append(tasks, Task(m, st))
            /\ last' = Frame(m, st.content, st.lookups, "relay")
       ELSE /\ tasks' = tasks
            /\ last' = Frame(m, st.content, st.lookups, "norelay")
    /\ UNCHANGED <<store, timers>>

\* the test of lines 235-236, where line 236 has a description to search in
IsBumpDone(m) == m.author = Disboard /\ m.embed = "Bump done"

\* line 236 raises on a message of the bump service: IndexError with no embed,
\* TypeError with an embed that has no description
NoDescription(m) == m.author = Disboard /\ m.embed = "none"

\* a mutant of Suppressed: the maintenance test comes after the webhook branch
SuppressedUsersOnly(m) == maintenance /\ m.channel # MaintChannel /\ ~m.webhook

\* the test of lines 228-229
Suppressed(m) == maintenance /\ m.channel # MaintChannel

\* a mutant of on_message: webhook messages are scanned like any other
on_messageScansWebhooks(m) ==
    /\ IF maintenance /\ ~Attributes
       THEN Raise(m)
       ELSE IF Suppressed(m)
            THEN Return(m, "suppressed")
            ELSE IF Count(m.content, Colon) > 1
                 THEN animated_emojis(m)
                 ELSE Return(m, "plain")
    /\ UNCHANGED <<maintenance, ready, now, running, hooks>>

\* on_message, lines 227-243, up to its return, its first await or an exception.
\* Line 236 raises on a message of the bump service that has no description to
\* search in.  In a call that comes before on_ready line 229 raises on every
\* message in maintenance mode; out of it line 237 raises on a confirmation, and
\* the scan of a user's message finds no emoji.
on_message(m) ==
    /\ IF maintenance /\ ~Attributes
       THEN Raise(m)
       ELSE IF Suppressed(m)
            THEN Return(m, "suppressed")
            ELSE IF m.webhook
                 THEN IF NoDescription(m)
                      THEN Raise(m)
                      ELSE IF IsBumpDone(m)
                           THEN IF Attributes THEN BumpDone(m) ELSE Raise(m)
                           ELSE Return(m, "webhook")
                 ELSE IF Count(m.content, Colon) > 1
                      THEN animated_emojis(m)
                      ELSE Return(m, "plain")
    /\ UNCHANGED <<maintenance, ready, now, running, hooks>>

\* the gateway delivers a message, before on_ready or after; the model stops
\* dispatching timers and starting relays at its bounds, and dispatches no timer
\* the clock would not follow
Receive(m) ==
    /\ (Attributes /\ m.webhook /\ IsBumpDone(m) /\ ~Suppressed(m)) =>
           /\ Len(timers) < MaxTimers
           /\ now + Period * TicksPerSecond <= MaxNow
    /\ (Attributes /\ ~m.webhook /\ ~Suppressed(m)) => Len(tasks) < MaxTasks
    /\ on_message(m)
    /\ feed' = feed

\* the gateway delivers a message the bot sent through a webhook
Echo ==
    /\ feed # <<>>
    /\ on_message(Head(feed))
    /\ feed' = Tail(feed)

\* ---------------------------------------------------------------- relay

\* a mutant of OwnHook: only the first webhook of the listing is looked at
OwnHookFirstOnly(ws) == IF Len(ws) > 0 /\ ws[1] = "bot" THEN 1 ELSE 0

\* the first webhook of the listing owned by the bot, 0 if none: the loop of
\* lines 285-287
OwnHook(ws) ==
    IF \E i \in 1..Len(ws) : ws[i] = "bot"
    THEN CHOOSE i \in 1..Len(ws) : ws[i] = "bot" /\ \A j \in 1..(i - 1) : ws[j] # "bot"
    ELSE 0

Fail(k, at) == tasks' = [tasks EXCEPT ![k].pc = "failed", ![k].at = at]

\* line 280 returns or raises; lines 285-287
ListHooks(k, ok) ==
    /\ tasks[k].pc = "list"
    /\ IF ok
       THEN LET own == OwnHook(hooks[tasks[k].msg.channel]) IN
            tasks' = [tasks EXCEPT ![k].pc = IF own # 0 THEN "send" ELSE "avatar",
                                   ![k].hook = own]
       ELSE Fail(k, "list")
    /\ UNCHANGED <<maintenance, ready, store, now, running, timers, hooks, feed, last>>

\* line 292 returns or raises
ReadAvatar(k, ok) ==
    /\ tasks[k].pc = "avatar"
    /\ IF ok THEN tasks' = [tasks EXCEPT ![k].pc = "create"] ELSE Fail(k, "avatar")
    /\ UNCHANGED <<maintenance, ready, store, now, running, timers, hooks, feed, last>>

\* a mutant of CreateHook: the platform refuses a second webhook of the bot in a
\* channel
CreateHookUnique(k, ok) ==
    /\ tasks[k].pc = "create"
    /\ IF ok /\ OwnHook(hooks[tasks[k].msg.channel]) = 0
       THEN LET ch == tasks[k].msg.channel IN
            /\ hooks' = [hooks EXCEPT ![ch] = Append(@, "bot")]
            /\ tasks' = [tasks EXCEPT ![k].pc = "send", ![k].hook = Len(hooks[ch]) + 1]
       ELSE Fail(k, "create") /\ hooks' = hooks
    /\ UNCHANGED <<maintenance, ready, store, now, running, timers, feed, last>>

\* lines 295-299 return or raise
CreateHook(k, ok) ==
    /\ tasks[k].pc = "create"
    /\ IF ok
       THEN LET ch == tasks[k].msg.channel IN
            /\ hooks' = [hooks EXCEPT ![ch] = Append(@, "bot")]
            /\ tasks' = [tasks EXCEPT ![k].pc = "send", ![k].hook = Len(hooks[ch]) + 1]
       ELSE Fail(k, "create") /\ hooks' = hooks
    /\ UNCHANGED <<maintenance, ready, store, now, running, timers, feed, last>>

\* a mutant of SendHook: a failed send is swallowed and the delete follows
SendHookSwallows(k, ok) ==
    /\ tasks[k].pc = "send"
    /\ IF ok
       THEN /\ tasks' = [tasks EXCEPT ![k].pc = "delete", ![k].sends = @ + 1]
            /\ feed' = Append(feed, Msg(tasks[k].msg.channel, TRUE, "proxy", "none", tasks[k].content))
       ELSE /\ tasks' = [tasks EXCEPT ![k].pc = "delete"]
            /\ feed' = feed
    /\ UNCHANGED <<maintenance, ready, store, now, running, timers, hooks, last>>

\* lines 303-305 return or raise
SendHook(k, ok) ==
    /\ tasks[k].pc = "send"
    /\ IF ok
       THEN /\ tasks' = [tasks EXCEPT ![k].pc = "delete", ![k].sends = @ + 1]
            /\ feed' = Append(feed, Msg(tasks[k].msg.channel, TRUE, "proxy", "none", tasks[k].content))
       ELSE Fail(k, "send") /\ feed' = feed
    /\ UNCHANGED <<maintenance, ready, store, now, running, timers, hooks, last>>

\* line 308 returns or raises
DeleteMsg(k, ok) ==
    /\ tasks[k].pc = "delete"
    /\ tasks' = [tasks EXCEPT ![k].pc = IF ok THEN "done" ELSE "failed",
                              ![k].at = IF ok THEN "none" ELSE "delete",
                              ![k].deletes = @ + 1]
    /\ UNCHANGED <<maintenance, ready, store, now, running, timers, hooks, feed, last>>

\* ------------------------------------------------------- specifications

\* the gateway connects, any number of times
ReadyStep ==
    \/ on_ready
    \/ \E ok \in BOOLEAN : Presence(ok)

\* the gateway connects once
ReadyOnce ==
    \/ ready = "no" /\ on_ready
    \/ \E ok \in BOOLEAN : Presence(ok)

TimerStep ==
    \/ \E t \in 1..Len(timers) : Start(t)
    \/ \E t \in 1..Len(timers), found \in BOOLEAN : Wake(t, found)
    \/ \E t \in 1..Len(timers), ok \in BOOLEAN : Emit(t, ok)
    \/ Tick

SchedStep ==
    \/ ReadyStep
    \/ TimerStep

RelayStep ==
    \/ \E k \in 1..Len(tasks), ok \in BOOLEAN : ListHooks(k, ok)
    \/ \E k \in 1..Len(tasks), ok \in BOOLEAN : ReadAvatar(k, ok)
    \/ \E k \in 1..Len(tasks), ok \in BOOLEAN : CreateHook(k, ok)
    \/ \E k \in 1..Len(tasks), ok \in BOOLEAN : SendHook(k, ok)
    \/ \E k \in 1..Len(tasks), ok \in BOOLEAN : DeleteMsg(k, ok)
    \/ Echo

\* the whole program from one startup (last trigger 1000 s ago, no webhooks yet),
\* on the bump service's confirmations and one relayed content
OneContent == { Text(<<":", "a", ":">>) }

BumpMsgs == { Msg(ch, TRUE, Disboard, "Bump done", <<>>) : ch \in Channels }

Next ==
    \/ SchedStep
    \/ RelayStep
    \/ \E m \in BumpMsgs \cup UserMsgs(OneContent) : Receive(m)

InitWhole ==
    /\ Init
    /\ store = Stored((Now0 - 1000) * TicksPerSecond)
    /\ hooks = [ch \in Channels |-> <<>>]

Spec == InitWhole /\ [][Next]_vars

\* the scheduler alone: every connect, the timers, the clock and webhook messages
InitSched == Init /\ hooks = [ch \in Channels |-> <<>>]

NextSched ==
    \/ SchedStep
    \/ \E m \in WebhookMsgs : Receive(m)

SpecSched == InitSched /\ [][NextSched]_vars

\* the scheduler of one connection, on the bump service's confirmations: startup
\* with the last trigger 1000 s or 9000 s ago
InitOnce ==
    /\ InitSched
    /\ store \in { Stored((Now0 - 1000) * TicksPerSecond), Stored((Now0 - 9000) * TicksPerSecond) }

NextOnce ==
    \/ ReadyOnce
    \/ TimerStep
    \/ \E m \in BumpMsgs : Receive(m)

\* the event loop runs every task that is ready, and the clock goes on
FairSched ==
    /\ InitOnce
    /\ [][NextOnce]_vars
    /\ WF_vars(\E t \in 1..Len(timers) : Start(t))
    /\ WF_vars(\E t \in 1..Len(timers), found \in BOOLEAN : Wake(t, found))
    /\ WF_vars(\E t \in 1..Len(timers), ok \in BOOLEAN : Emit(t, ok))
    /\ WF_vars(Tick)

\* the relay alone, on few contents: startup and user messages, relays overlapping
InitRelay == Init /\ store = Stored((Now0 - 9000) * TicksPerSecond)

NextRelay ==
    \/ ReadyOnce
    \/ RelayStep
    \/ \E m \in UserMsgs(FewContents) : Receive(m)

SpecRelay == InitRelay /\ [][NextRelay]_vars

\* the relay of one message, which arrives before on_ready or once it is over, on
\* every content of up to MaxWords words and on two words with a break between
\* them
InitText == InitRelay /\ ~maintenance /\ hooks["maint"] = <<>>

NextText ==
    \/ ReadyOnce
    \/ RelayStep
    \/ /\ last = NoFrame
       /\ ready \in {"no", "ok", "failed"}
       /\ \E c \in Contents : Receive(Msg("general", FALSE, "user", "none", c))

SpecText == InitText /\ [][NextText]_vars

\* no relay is under way
AllIdle == \A k \in 1..Len(tasks) : tasks[k].pc \in {"done", "failed"}

\* messages of another webhook whose content has a token the catalog resolves
WebhookTexts == { Msg(ch, TRUE, "other", "none", c) : ch \in Channels, c \in OneContent }

\* scheduler and relay together, out of maintenance mode, with one connect and
\* one relay: startup with the last trigger 1000 s ago or 100 s ahead of the
\* clock, confirmations and user messages of one channel
InitMixed ==
    /\ Init
    /\ ~maintenance
    /\ store \in { Stored((Now0 - 1000) * TicksPerSecond), Stored((Now0 + 100) * TicksPerSecond) }
    /\ hooks = [ch \in Channels |-> <<>>]

\* the messages of ms that come from the channel "general"
InGeneral(ms) == { m \in ms : m.channel = "general" }

NextMixed ==
    \/ ReadyOnce
    \/ TimerStep
    \/ RelayStep
    \/ \E m \in InGeneral(BumpMsgs) : Receive(m)
    \/ /\ tasks = <<>>
       /\ \E m \in InGeneral(UserMsgs(OneContent)) : Receive(m)

SpecMixed == InitMixed /\ [][NextMixed]_vars

\* messages of the bump service with no description in their first embed
BareMsgs == { Msg(ch, TRUE, Disboard, "none", <<>>) : ch \in Channels }

\* what on_ready and on_message let through, in and out of maintenance mode, with
\* one connect and one relay: confirmations, messages of the bump service with
\* no description, other webhook messages and user messages of both channels; the
\* dispatched timers are left where they are
InitGate ==
    /\ Init
    /\ store = Stored((Now0 - 1000) * TicksPerSecond)
    /\ hooks = [ch \in Channels |-> <<>>]

NextGate ==
    \/ ReadyOnce
    \/ RelayStep
    \/ \E m \in BumpMsgs \cup BareMsgs \cup WebhookTexts : Receive(m)
    \/ /\ tasks = <<>>
       /\ \E m \in UserMsgs(OneContent) : Receive(m)

SpecGate == InitGate /\ [][NextGate]_vars

\* the relay, one operation after the other: a user's message arrives when no
\* relay is under way; a channel starts with no webhook, with another owner's, with
\* one of the bot's, or with two of the bot's
InitSeq ==
    /\ maintenance \in BOOLEAN
    /\ ready = "no"
    /\ now = Now0 * TicksPerSecond
    /\ store = Stored((Now0 - 9000) * TicksPerSecond)
    /\ running = FALSE
    /\ timers = <<>>
    /\ tasks = <<>>
    /\ hooks \in [Channels -> { <<>>, <<"other">>, <<"other", "bot">>, <<"bot", "other", "bot">> }]
    /\ feed = <<>>
    /\ last = NoFrame

NextSeq ==
    \/ ReadyOnce
    \/ RelayStep
    \/ /\ AllIdle
       /\ \E m \in UserMsgs(FewContents) : Receive(m)

SpecSeq == InitSeq /\ [][NextSeq]_vars

\* --------------------------------------------------------------- claims

\* the timers that have not fired yet
Pending(t) == timers[t].pc \in {"dispatched", "sleeping"}

\* the timers whose sleep is over: lines 105-124, the emission of the reminder,
\* are under way or have ended
Fired(t) == timers[t].pc \in {"emit", "done", "failed"}

\* a word with the delimiter at both ends and something between
TokenShape(w) == Len(w) > 2 /\ w[1] = Colon /\ w[Len(w)] = Colon

\* the name between a token's delimiters
NameOf(w) == [i \in 1..(Len(w) - 2) |-> w[i + 1]]

\* the textual form of the catalog's emoji of that name
TextOf(name) == EmojiStr(CHOOSE e \in Catalog : e.name = name)

\* how often x is in the sequence q
Occurrences(q, x) == Cardinality({ i \in 1..Len(q) : q[i] = x })

\* the words of the message on_message was last called with, and of its content
\* after the call
WordsIn == Split(last.msg.content)
WordsOut == Split(last.content)

\* C1: the delay on_ready passes to the timer lies in [0, 7200] seconds for every
\* stored lastTriggerTime, one later than the current time included.
C1_StartupDelayInPeriod ==
    \A t \in 1..Len(timers) :
        timers[t].by = "startup" => timers[t].delay \in 0..Period

\* C2: with no lastTriggerTime in the store, on_ready does not fail and dispatches
\* the timer with delay 0.
C2_AbsentArmsNow ==
    [][(on_ready /\ ~maintenance /\ store = Absent)
          => /\ ready' # "failed"
             /\ Len(timers') = Len(timers) + 1
             /\ timers'[Len(timers')].delay = 0]_vars

\* C3: running is true exactly when some timer has started and not yet fired.
C3_RunningIffCountingDown ==
    running <=> \E t \in 1..Len(timers) : timers[t].pc = "sleeping"

\* C4: every dispatched timer goes on to the end of its sleep and to lines
\* 105-124, which emit its reminder, and no step takes a pending timer anywhere
\* but towards its own fire: a confirmation, or a later on_ready, that arrives while
\* an earlier timer counts down leaves that timer counting.
C4_EveryArmFires ==
    /\ \A t \in 1..MaxTimers : (Len(timers) >= t) ~> (Len(timers) >= t /\ Fired(t))
    /\ [][\A t \in 1..Len(timers) :
              /\ Len(timers') >= t
              /\ timers[t].pc = "dispatched" => timers'[t].pc \in {"dispatched", "sleeping"}
              /\ timers[t].pc = "sleeping" => timers'[t].pc \in {"sleeping", "emit", "failed"}
              /\ Fired(t) => Fired(t)']_vars

\* C4's case: a confirmation's timer started while the earlier timer was still
\* counting down (its start lies before the earlier deadline), and both fired.
C4_Witness ==
    /\ Len(timers) >= 2
    /\ timers[2].by = "bump"
    /\ Fired(1) /\ Fired(2)
    /\ timers[2].wake - timers[2].delay * TicksPerSecond < timers[1].wake

\* C5: when on_message gets the bump service's "Bump done" webhook message, before
\* on_ready or after, the store holds the current time afterwards and one more
\* timer is dispatched, with delay 7200.
C5_ConfirmationStoresAndArms ==
    [][\A m \in WebhookMsgs :
          (Receive(m) /\ m.webhook /\ IsBumpDone(m) /\ ~Suppressed(m))
              => /\ store' = <<now>>
                 /\ Len(timers') = Len(timers) + 1
                 /\ timers'[Len(timers')].delay = 7200
                 /\ timers'[Len(timers')].pc = "dispatched"
                 /\ \A t \in 1..Len(timers) : timers'[t] = timers[t]]_vars

\* whether no token of the content has a name of the catalog
NoTokenResolves(content) ==
    \A i \in 1..Len(Split(content)) :
        TokenShape(Split(content)[i]) => NameOf(Split(content)[i]) \notin CatalogNames

\* C6: a call of on_message on a message none of whose tokens resolves leaves the
\* content as it was, starts no relay (no listing, no webhook created), sends
\* nothing and deletes nothing.
C6_NoResolveNoEffect ==
    [][(on_message(last'.msg) /\ NoTokenResolves(last'.msg.content))
          => /\ last'.content = last'.msg.content
             /\ tasks' = tasks
             /\ hooks' = hooks
             /\ Len(feed') <= Len(feed)]_vars

C6_Witness ==
    /\ last.how = "norelay"
    /\ \E i \in 1..Len(WordsIn) : TokenShape(WordsIn[i])
    /\ NoTokenResolves(last.msg.content)
    /\ tasks = <<>>

\* C7: every token whose name is not in the catalog stands unchanged in the
\* resulting content, also when another token of the message resolves.
C7_MissedTokenUnchanged ==
    last.how \in {"relay", "norelay"} =>
        \A i \in 1..Len(WordsIn) :
            (TokenShape(WordsIn[i]) /\ NameOf(WordsIn[i]) \notin CatalogNames)
                => i <= Len(WordsOut) /\ WordsOut[i] = WordsIn[i]

\* C8: in a call of on_message that has the catalog to look in (on_ready has made
\* the EmojiGroup), every occurrence as a word of a token the catalog resolves is
\* replaced by the emoji's text, and get_emoji is called once for its name.
C8_EveryOccurrenceOneLookup ==
    [][(on_message(last'.msg) /\ Attributes /\ last'.how \in {"relay", "norelay"}) =>
          LET wi == Split(last'.msg.content)
              wo == Split(last'.content)
          IN  \A i \in 1..Len(wi) :
                  (TokenShape(wi[i]) /\ NameOf(wi[i]) \in CatalogNames)
                      => /\ Len(wo) = Len(wi)
                         /\ wo[i] = TextOf(NameOf(wi[i]))
                         /\ Occurrences(last'.lookups, NameOf(wi[i])) = 1]_vars

\* C8's case: ":a: hi :a:" became "<a:a:1> hi <a:a:1>" with one lookup of a
C8_Witness ==
    /\ last.how = "relay"
    /\ WordsIn = << Text(<<":", "a", ":">>), Text(<<"h", "i">>), Text(<<":", "a", ":">>) >>
    /\ WordsOut = << Text(<<"<", "a", ":", "a", ":", "1", ">">>), Text(<<"h", "i">>),
                     Text(<<"<", "a", ":", "a", ":", "1", ">">>) >>
    /\ last.lookups = << Text(<<"a">>) >>

\* C9: the delete is attempted only after the send through the webhook returned;
\* a relay that failed to list, to read the avatar, to create the webhook or to
\* send has attempted no delete and stays failed.
C9_DeleteOnlyAfterSend ==
    \A k \in 1..Len(tasks) :
        /\ tasks[k].deletes > 0 => tasks[k].sends = 1
        /\ tasks[k].pc \in {"delete", "done"} => tasks[k].sends = 1
        /\ tasks[k].at \in {"list", "avatar", "create", "send"}
              => tasks[k].deletes = 0 /\ tasks[k].pc = "failed"

C9_Witness ==
    \E k \in 1..Len(tasks), j \in 1..Len(tasks) :
        /\ tasks[k].at = "send" /\ tasks[k].deletes = 0
        /\ tasks[j].at = "create" /\ tasks[j].deletes = 0

\* C10 as stated: the step in which the emission of a fired timer's reminder
\* fails, at the send of line 117 or at the lookups before it, leaves running
\* false and dispatches no timer.
C10_FailedEmitLeavesIdle ==
    [][\A t \in 1..Len(timers) :
          (Fired(t)' /\ timers'[t].pc = "failed" /\ timers[t].pc # "failed")
              => /\ ~running'
                 /\ Len(timers') = Len(timers)]_vars

\* C10, amended: the step in which a reminder's send fails dispatches no timer,
\* touches no other timer and leaves running as it was: false, unless another
\* timer was started after the fire and is still counting down; the step in
\* which lines 108-114 fail before the send is the one that ends the sleep, and
\* it dispatches no timer and leaves running false.
C10_FailedEmitStaysIdle ==
    [][\A t \in 1..Len(timers) :
          /\ (timers[t].pc = "emit" /\ Len(timers') >= t /\ timers'[t].pc = "failed")
                 => /\ Len(timers') = Len(timers)
                    /\ \A u \in 1..Len(timers) : u # t => timers'[u] = timers[u]
                    /\ running' = running
                    /\ running' => \E u \in 1..Len(timers) : u # t /\ timers'[u].pc = "sleeping"
          /\ (timers[t].pc = "sleeping" /\ Len(timers') >= t /\ timers'[t].pc = "failed")
                 => /\ Len(timers') = Len(timers)
                    /\ \A u \in 1..Len(timers) : u # t => timers'[u] = timers[u]
                    /\ ~running']_vars

\* C10's case: the send of a fired timer's reminder raised; no timer was
\* dispatched for it, none is pending, and running is false.
C10_Witness ==
    /\ \E t \in 1..Len(timers) : timers[t].pc = "failed" /\ timers[t].at = "send"
    /\ \A t \in 1..Len(timers) : ~Pending(t) /\ timers[t].by # "retry"
    /\ ~running

\* C11: two relays of one channel that both listed the webhooks before either
\* created one both create a webhook, and the second creation is no failure: for
\* every relay, whatever the channel's webhooks are by then, a create that returns
\* leads to the send through the webhook it made, a send that returns carries the
\* relay's own rewritten content, and a delete that returns ends the relay of its
\* own message.
C11_RaceStillRelays ==
    [][\A k \in 1..Len(tasks) :
          LET ch == tasks[k].msg.channel IN
          /\ CreateHook(k, TRUE) =>
                 /\ tasks'[k].pc = "send"
                 /\ tasks'[k].hook \in 1..Len(hooks'[ch])
                 /\ hooks'[ch][tasks'[k].hook] = "bot"
                 /\ \A j \in 1..Len(tasks) : j # k => tasks'[j] = tasks[j]
          /\ SendHook(k, TRUE) =>
                 /\ tasks'[k].pc = "delete"
                 /\ tasks'[k].sends = 1
                 /\ hooks[ch][tasks[k].hook] = "bot"
                 /\ feed' = Append(feed, Msg(ch, TRUE, "proxy", "none",
                                             Rewrite(tasks[k].msg.content, TRUE).content))
          /\ DeleteMsg(k, TRUE) =>
                 /\ tasks'[k].pc = "done"
                 /\ tasks'[k].deletes = 1
                 /\ tasks'[k].msg = tasks[k].msg]_vars

\* C11's case: two relays of one channel each made a webhook of its own, and each
\* sent once and deleted once.
C11_Witness ==
    \E k, j \in 1..Len(tasks) :
        /\ k # j
        /\ tasks[k].msg.channel = tasks[j].msg.channel
        /\ tasks[k].pc = "done" /\ tasks[j].pc = "done"
        /\ tasks[k].hook # tasks[j].hook
        /\ Occurrences(hooks[tasks[k].msg.channel], "bot") = 2
        /\ tasks[k].sends = 1 /\ tasks[j].sends = 1
        /\ tasks[k].deletes = 1 /\ tasks[j].deletes = 1

\* a step of on_message on the bump service's confirmation, past the maintenance
\* test
ConfirmationStep == \E m \in BumpMsgs : on_message(m) /\ ~Suppressed(m)

\* C12 as stated: the stored lastTriggerTime changes only in the step that handles
\* a confirmation, and no change makes it earlier.
C12_StoreNeverDecreases ==
    [][store' # store =>
          /\ ConfirmationStep
          /\ (store # Absent /\ store' # Absent) => TimeOf(store') >= TimeOf(store)]_vars

\* C12, amended: the stored lastTriggerTime changes only in the step that handles
\* a confirmation, which sets it to the current time; the change makes it no
\* earlier unless the stored time was ahead of the clock.  The relay's steps and
\* the timer's start, wake and send leave it as it is.
C12_StoreOnlyByConfirmation ==
    [][/\ store' # store =>
             /\ ConfirmationStep
             /\ store' = Stored(now)
             /\ (store # Absent /\ TimeOf(store) <= now) => TimeOf(store') >= TimeOf(store)
       /\ (RelayStep \/ \E t \in 1..Len(timers) : Start(t) \/ Wake(t, TRUE) \/ Wake(t, FALSE)
                                              \/ Emit(t, TRUE) \/ Emit(t, FALSE))
             => store' = store]_vars

\* C12's case: a confirmation was stored after startup, a timer has fired and a
\* relay has run to its end, and the store holds the confirmation's time.
C12_Witness ==
    /\ store # Absent
    /\ TimeOf(store) > Now0 * TicksPerSecond
    /\ \E t \in 1..Len(timers) : timers[t].by = "bump" /\ timers[t].pc = "done"
    /\ \E k \in 1..Len(tasks) : tasks[k].pc = "done"

\* the positions of the words of the last message that have a token's shape
TokenPositions == LET wi == WordsIn IN { j \in 1..Len(wi) : TokenShape(wi[j]) }

\* C13: every name get_emoji is called with is the inside of a word of the message
\* that begins and ends with the delimiter and is longer than 2, and there are no
\* more calls than such words; a message with no such word, one of ":" and "::"
\* only among them, causes no call and no relay.
C13_LookupOnlyForTokens ==
    LET wi == WordsIn
        tp == TokenPositions
    IN  /\ \A i \in 1..Len(last.lookups) :
               \E j \in tp : NameOf(wi[j]) = last.lookups[i]
        /\ Len(last.lookups) <= Cardinality(tp)
        /\ (last # NoFrame /\ ~last.msg.webhook /\ tp = {}) =>
               /\ last.lookups = <<>>
               /\ last.how \in {"plain", "norelay"}
               /\ last.content = last.msg.content
               /\ tasks = <<>>

\* C13's case: a message of the words ":" and "::" was scanned, with no lookup and
\* no relay.
C13_Witness ==
    /\ last.how = "norelay"
    /\ Len(WordsIn) >= 2
    /\ \E j \in 1..Len(WordsIn) : WordsIn[j] = <<Colon>>
    /\ \E j \in 1..Len(WordsIn) : WordsIn[j] = <<Colon, Colon>>
    /\ \A j \in 1..Len(WordsIn) : WordsIn[j] \in { <<Colon>>, <<Colon, Colon>> }
    /\ last.lookups = <<>>
    /\ tasks = <<>>

\* C14: a call of on_message that has the catalog to look in (on_ready has made
\* the EmojiGroup), on a user's message one of whose tokens resolves, wherever the
\* token stands among those that do not, starts one relay of that
\* message with the rewritten content; a relay sends at most once and deletes at
\* most once, through a webhook of the bot in the message's channel, the delete
\* after the send; it stops short of that only where a call to the platform
\* raised, and a relay that ended has sent once and then deleted once.
C14_OneSendThenOneDelete ==
    /\ [][(/\ on_message(last'.msg)
            /\ Attributes
            /\ ~last'.msg.webhook
            /\ ~NoTokenResolves(last'.msg.content))
              => /\ Len(tasks') = Len(tasks) + 1
                 /\ \A k \in 1..Len(tasks) : tasks'[k] = tasks[k]
                 /\ tasks'[Len(tasks')].msg = last'.msg
                 /\ tasks'[Len(tasks')].content = Rewrite(last'.msg.content, TRUE).content
                 /\ tasks'[Len(tasks')].pc = "list"
                 /\ tasks'[Len(tasks')].sends = 0
                 /\ tasks'[Len(tasks')].deletes = 0]_vars
    /\ [](\A k \in 1..Len(tasks) :
             LET ch == tasks[k].msg.channel IN
             /\ tasks[k].sends <= 1
             /\ tasks[k].deletes <= 1
             /\ tasks[k].deletes = 1 => tasks[k].sends = 1
             /\ tasks[k].sends = 1 =>
                    /\ tasks[k].hook \in 1..Len(hooks[ch])
                    /\ hooks[ch][tasks[k].hook] = "bot"
             /\ tasks[k].pc = "done" => (tasks[k].sends = 1 /\ tasks[k].deletes = 1)
             /\ tasks[k].pc = "failed" => tasks[k].at # "none"
             /\ tasks[k].pc \in {"list", "avatar", "create", "send"} => tasks[k].sends = 0
             /\ tasks[k].pc = "delete" => (tasks[k].sends = 1 /\ tasks[k].deletes = 0))

\* C14's case: the one token that resolves stood between two that do not, and the
\* relay of the message ended with one send and one delete.
C14_Witness ==
    \E k \in 1..Len(tasks) :
        LET ws == Split(tasks[k].msg.content) IN
        /\ Len(ws) = 3
        /\ TokenShape(ws[1]) /\ NameOf(ws[1]) \notin CatalogNames
        /\ TokenShape(ws[2]) /\ NameOf(ws[2]) \in CatalogNames
        /\ TokenShape(ws[3]) /\ NameOf(ws[3]) \notin CatalogNames
        /\ tasks[k].pc = "done"
        /\ tasks[k].sends = 1
        /\ tasks[k].deletes = 1

\* C15: when the clock and the stored lastTriggerTime are whole seconds, the delay
\* on_ready dispatches is max(0, 7200 - (now - lastTriggerTime)) seconds, whatever
\* the stored time: 0 for a trigger 9000 s ago, 6200 for one 1000 s ago.
C15_StartupDelayFormula ==
    [][(/\ on_ready
        /\ ~maintenance
        /\ store # Absent
        /\ now % TicksPerSecond = 0
        /\ TimeOf(store) % TicksPerSecond = 0)
          => LET age == (now - TimeOf(store)) \div TicksPerSecond
                 remaining == 7200 - age
                 new == timers'[Len(timers')]
             IN  /\ Len(timers') = Len(timers) + 1
                 /\ new.by = "startup"
                 /\ new.pc = "dispatched"
                 /\ new.delay = IF remaining > 0 THEN remaining ELSE 0
                 /\ age = 9000 => new.delay = 0
                 /\ age = 1000 => new.delay = 6200]_vars

\* C15's case: on_ready ran with the last trigger 1000 s before the clock and
\* dispatched the timer with 6200 s.
C15_Witness ==
    /\ ready = "ok"
    /\ ~maintenance
    /\ now = Now0 * TicksPerSecond
    /\ store = Stored((Now0 - 1000) * TicksPerSecond)
    /\ Len(timers) = 1
    /\ timers[1].by = "startup"
    /\ timers[1].delay = 6200

\* C16: with relays that do not overlap, a webhook is created in a channel only
\* while the channel has none of the bot's: a channel gets at most one, and where
\* the bot has a webhook, or several, no relay adds another.  The step that adds
\* one is a relay's create, and the relay goes on with the webhook it added; a
\* listing that has a webhook of the bot leads to the send through it.
C16_CreateOnlyWhenAbsent ==
    [][/\ \A ch \in Channels :
          hooks'[ch] # hooks[ch] =>
              /\ Occurrences(hooks[ch], "bot") = 0
              /\ hooks'[ch] = Append(hooks[ch], "bot")
              /\ \E k \in 1..Len(tasks) :
                     /\ tasks[k].msg.channel = ch
                     /\ tasks[k].pc = "create"
                     /\ tasks'[k].pc = "send"
                     /\ tasks'[k].hook = Len(hooks'[ch])
       /\ \A k \in 1..Len(tasks) :
              (ListHooks(k, TRUE) /\ Occurrences(hooks[tasks[k].msg.channel], "bot") > 0)
                  => /\ tasks'[k].pc = "send"
                     /\ hooks[tasks[k].msg.channel][tasks'[k].hook] = "bot"]_vars

\* C16's case: the first relay of a channel created the webhook and the second,
\* after it, sent through the same one.
C16_Witness ==
    \E k, j \in 1..Len(tasks) :
        /\ k < j
        /\ tasks[k].msg.channel = tasks[j].msg.channel
        /\ tasks[k].pc = "done" /\ tasks[j].pc = "done"
        /\ hooks[tasks[k].msg.channel] = <<"bot">>
        /\ tasks[k].hook = 1 /\ tasks[j].hook = 1

\* C17 as stated: in maintenance mode no call of on_message writes the store,
\* dispatches a timer or starts a relay, so that nothing is sent or deleted, and
\* on_ready dispatches no timer.
C17_MaintenanceSuppressesAll ==
    [][maintenance =>
          /\ on_message(last'.msg) =>
                 (store' = store /\ timers' = timers /\ tasks' = tasks)
          /\ on_ready => timers' = timers
          /\ \A k \in 1..Len(tasks') : tasks'[k].sends = 0 /\ tasks'[k].deletes = 0]_vars

\* C17, amended: in maintenance mode no call of on_message on a message from
\* outside the maintenance channel, and none that comes before on_ready, writes
\* the store, dispatches a timer or starts a relay (the first returns at line 230,
\* the second raises at line 229), so that every timer is a confirmation's from
\* the maintenance channel and every relay is of a message of that channel;
\* on_ready dispatches no timer.
C17_MaintenanceSuppressesOutside ==
    /\ [][maintenance =>
              /\ (on_message(last'.msg) /\ (last'.msg.channel # MaintChannel \/ ~Attributes)) =>
                     /\ store' = store
                     /\ timers' = timers
                     /\ tasks' = tasks
                     /\ last'.how = IF Attributes THEN "suppressed" ELSE "raised"
              /\ on_ready => (timers' = timers /\ ready' = "presence")
              /\ Len(timers') > Len(timers) =>
                     /\ on_message(last'.msg)
                     /\ last'.msg.channel = MaintChannel]_vars
    /\ [](maintenance =>
              /\ \A k \in 1..Len(tasks) : tasks[k].msg.channel = MaintChannel
              /\ \A t \in 1..Len(timers) : timers[t].by = "bump"
              /\ \A i \in 1..Len(feed) : feed[i].channel = MaintChannel)

\* C17's case: in maintenance mode, after startup, a confirmation from outside the
\* maintenance channel was dropped: no timer, no relay, the store as at startup.
C17_Witness ==
    /\ maintenance
    /\ ready = "ok"
    /\ last.how = "suppressed"
    /\ IsBumpDone(last.msg)
    /\ last.msg.channel # MaintChannel
    /\ timers = <<>>
    /\ tasks = <<>>
    /\ store = Stored((Now0 - 1000) * TicksPerSecond)

\* C18: a call of on_message on a message that came through a webhook, be it the
\* bump service's, another webhook's or the relay's own, scans nothing, leaves the
\* content alone and starts no relay, whether it returns or, before on_ready,
\* raises; every message a relay sends comes back as a webhook message, and no
\* relay is ever of a webhook message.
C18_WebhookNeverRelayed ==
    /\ [][(on_message(last'.msg) /\ last'.msg.webhook)
              => /\ tasks' = tasks
                 /\ hooks' = hooks
                 /\ last'.lookups = <<>>
                 /\ last'.content = last'.msg.content
                 /\ last'.how \in {"suppressed", "webhook", "bump", "raised"}
                 /\ Len(feed') <= Len(feed)]_vars
    /\ [](/\ \A i \in 1..Len(feed) : feed[i].webhook
          /\ \A k \in 1..Len(tasks) : ~tasks[k].msg.webhook)

\* C18's case: the message a relay sent was delivered back to on_message, its
\* content with more than one delimiter, and the relay it came from is the only one.
C18_Witness ==
    /\ last.how = "webhook"
    /\ last.msg.author = "proxy"
    /\ Count(last.msg.content, Colon) > 1
    /\ Len(tasks) = 1
    /\ tasks[1].sends = 1
    /\ last.msg.content = tasks[1].content
    /\ feed = <<>>

====
